---- MODULE Spec2Model ----
(***************************************************************************)
(* Model of the chess puzzle ROM maker (src/chess/src/lib.rs and           *)
(* src/chess/src/main.rs): the board codec, the move parser / applier /    *)
(* indexer, the puzzle filter, the puzzle emitter and the ROM assembler.   *)
(*                                                                         *)
(* Text is a sequence of one-character strings; a byte is an integer in    *)
(* 0..255.  u8 arithmetic keeps its width: a build with overflow checks    *)
(* (debug profile) panics on overflow, a build without (release profile)   *)
(* wraps modulo 256.                                                       *)
(***************************************************************************)
EXTENDS Integers, Sequences, FiniteSets, TLC

VARIABLES
    overflow_checks,  \* build profile: TRUE = arithmetic overflow panics
    fn,               \* library function applied last ("none" before any call)
    fn_in,            \* the arguments the call chain started from
    fn_out,           \* the value returned by the last call
    config,           \* main: the Config built from the command line
    headers,          \* main: the header row of the CSV file
    records,          \* main: the CSV rows not yet read by the loop, as runs
    puzzle_count,     \* main: puzzles process_puzzle returned Ok for
    page_count,       \* main: pages counted so far, later the header's page count
    skipped_count,    \* main: puzzles the filter skipped
    current_puzzle_pages, \* main: pages of the puzzle processed last
    files,            \* the fenpuzzles directory: file name -> text
    archive,          \* the fenpuzzles directory: the number of archive files
    io_errors,        \* the sink operations that have failed during the run
    last,             \* what the loop did with the row it read last
    pc,               \* where the program is
    puzzle_groups,    \* generate_rom: the groups not yet looked at
    group,            \* generate_rom: the files of the current group not yet packed
    rom_data,         \* generate_rom: the data-region buffer, a sequence of runs
    actual_puzzle_count, \* generate_rom: groups packed
    actual_file_count,   \* generate_rom: records packed
    rom_file          \* lightnote.rom: Absent, or Some(the image, a sequence of runs)

fnVars == <<fn, fn_in, fn_out>>

mainVars == <<config, headers, records, puzzle_count, page_count, skipped_count,
              current_puzzle_pages, files, archive, io_errors, last, pc>>

romVars == <<puzzle_groups, group, rom_data, actual_puzzle_count, actual_file_count, rom_file>>

-----------------------------------------------------------------------------
(* Text helpers                                                             *)

Str(s) == [i \in 1..Len(s) |-> SubSeq(s, i, i)]

Range(f) == {f[i] : i \in DOMAIN f}

\* printable ASCII in code order, starting at code 32 (space); the double
\* quote (34), the backslash (92) and the backtick (96) are held by names, no
\* text here uses them
ASCII ==
    <<" ", "!", "DQUOTE", "#", "$", "%", "&", "'", "(", ")", "*", "+", ",", "-", ".", "/",
      "0", "1", "2", "3", "4", "5", "6", "7", "8", "9", ":", ";", "<", "=", ">", "?",
      "@", "A", "B", "C", "D", "E", "F", "G", "H", "I", "J", "K", "L", "M", "N", "O",
      "P", "Q", "R", "S", "T", "U", "V", "W", "X", "Y", "Z", "[", "BACKSLASH", "]", "^", "_",
      "BACKTICK", "a", "b", "c", "d", "e", "f", "g", "h", "i", "j", "k", "l", "m", "n", "o",
      "p", "q", "r", "s", "t", "u", "v", "w", "x", "y", "z", "{", "|", "}", "~">>

\* (c as u8) for an ASCII character
Code == [c \in Range(ASCII) |-> 31 + (CHOOSE i \in DOMAIN ASCII : ASCII[i] = c)]

CharOf(n) == ASCII[n - 31]

is_ascii_digit(c) == Code[c] >= Code["0"] /\ Code[c] <= Code["9"]

\* c.to_digit(10).unwrap() for a decimal digit c
to_digit(c) == Code[c] - Code["0"]

is_uppercase(c) == Code[c] >= Code["A"] /\ Code[c] <= Code["Z"]

is_lowercase(c) == Code[c] >= Code["a"] /\ Code[c] <= Code["z"]

is_ascii_alphabetic(c) == is_uppercase(c) \/ is_lowercase(c)

to_ascii_uppercase(c) == IF is_lowercase(c) THEN CharOf(Code[c] - (Code["a"] - Code["A"])) ELSE c

to_ascii_lowercase(c) == IF is_uppercase(c) THEN CharOf(Code[c] + (Code["a"] - Code["A"])) ELSE c

is_whitespace(c) == c = " "

\* n times the character c
Repeat(c, n) == [i \in 1..n |-> c]

\* s read backwards
Rev(s) == [i \in 1..Len(s) |-> s[Len(s) + 1 - i]]

\* n.to_string() / format!("{}", n) for an unsigned integer
RECURSIVE to_string(_)
to_string(n) == IF n < 10 THEN <<CharOf(Code["0"] + n)>>
                ELSE to_string(n \div 10) \o <<CharOf(Code["0"] + (n % 10))>>

\* format!("{:02}", n): decimal, zero-padded to a width of at least 2
fmt02(n) == IF n < 10 THEN <<"0">> \o to_string(n) ELSE to_string(n)

\* the pieces lo..hi one after the other
RECURSIVE concat_range(_, _, _)
concat_range(pieces, lo, hi) ==
    IF lo > hi THEN <<>>
    ELSE IF lo = hi THEN pieces[lo]
    ELSE concat_range(pieces, lo, (lo + hi) \div 2)
         \o concat_range(pieces, (lo + hi) \div 2 + 1, hi)

concat(pieces) == concat_range(pieces, 1, Len(pieces))

\* s.split(sep).collect(): always at least one (possibly empty) piece
RECURSIVE split(_, _)
split(s, sep) ==
    IF \A i \in DOMAIN s : s[i] # sep THEN <<s>>
    ELSE LET k == CHOOSE i \in DOMAIN s : s[i] = sep /\ \A j \in 1..(i - 1) : s[j] # sep
         IN  <<SubSeq(s, 1, k - 1)>> \o split(SubSeq(s, k + 1, Len(s)), sep)

\* pieces.join(sep)
RECURSIVE join(_, _)
join(pieces, sep) ==
    IF pieces = <<>> THEN <<>>
    ELSE IF Len(pieces) = 1 THEN pieces[1]
    ELSE pieces[1] \o <<sep>> \o join(Tail(pieces), sep)

\* a < b for strings and paths: byte-wise lexicographic order
str_lt(a, b) ==
    LET differ == {i \in DOMAIN a \cap DOMAIN b : a[i] # b[i]}
    IN  IF differ = {} THEN Len(a) < Len(b)
        ELSE LET first == CHOOSE i \in differ : \A j \in differ : i <= j
             IN  Code[a[first]] < Code[b[first]]

\* s.split_whitespace().collect(): the non-empty runs of non-blank characters
RECURSIVE split_whitespace(_)
split_whitespace(s) ==
    IF s = <<>> THEN <<>>
    ELSE IF is_whitespace(Head(s)) THEN split_whitespace(Tail(s))
    ELSE LET stop == IF \E i \in DOMAIN s : is_whitespace(s[i])
                         THEN CHOOSE i \in DOMAIN s :
                                  is_whitespace(s[i]) /\ \A j \in 1..(i - 1) : ~is_whitespace(s[j])
                         ELSE Len(s) + 1
         IN  <<SubSeq(s, 1, stop - 1)>> \o split_whitespace(SubSeq(s, stop, Len(s)))

RECURSIVE trim_start(_)
trim_start(s) == IF s # <<>> /\ is_whitespace(Head(s)) THEN trim_start(Tail(s)) ELSE s

RECURSIVE trim_end(_)
trim_end(s) ==
    IF s # <<>> /\ is_whitespace(s[Len(s)]) THEN trim_end(SubSeq(s, 1, Len(s) - 1)) ELSE s

trim(s) == trim_start(trim_end(s))

to_lowercase(s) == [i \in DOMAIN s |-> to_ascii_lowercase(s[i])]

\* haystack.contains(needle) for a substring needle
str_contains(haystack, needle) ==
    \E i \in 0..(Len(haystack) - Len(needle)) :
        SubSeq(haystack, i + 1, i + Len(needle)) = needle

ends_with(s, suffix) ==
    Len(s) >= Len(suffix) /\ SubSeq(s, Len(s) - Len(suffix) + 1, Len(s)) = suffix

\* s.rfind(c): the 0-based index of the last c, -1 when there is none
rfind(s, c) ==
    IF \A i \in DOMAIN s : s[i] # c THEN -1
    ELSE (CHOOSE i \in DOMAIN s : s[i] = c /\ \A j \in (i + 1)..Len(s) : s[j] # c) - 1

\* v.sort() of a collection of distinct paths
RECURSIVE sorted(_)
sorted(S) ==
    IF S = {} THEN <<>>
    ELSE LET least == CHOOSE x \in S : \A y \in S : x = y \/ str_lt(x, y)
         IN  <<least>> \o sorted(S \ {least})

-----------------------------------------------------------------------------
(* Results                                                                  *)

\* Option<char>::None, and the value of a variable nothing was stored in
None == "None"

\* Option<String>: Absent is None, Some(x) holds x
Absent == <<>>

Some(x) == <<x>>

Ok(v) == [tag |-> "Ok", val |-> v]

Err(e) == [tag |-> "Err", err |-> e]

\* the thread panicked: unwrap() on None, overflow under overflow checks,
\* or an out-of-range replace_range
Panic == [tag |-> "Panic"]

Wrap8(n) == n % 256

Fits8(n) == n >= 0 /\ n <= 255

\* text.parse::<u32>(): an optional '+', then at least one digit, value < 2^32
RECURSIVE decimal_value(_)
decimal_value(digits) ==
    IF digits = <<>> THEN 0
    ELSE decimal_value(SubSeq(digits, 1, Len(digits) - 1)) * 10 + to_digit(digits[Len(digits)])

RECURSIVE strip_zeros(_)
strip_zeros(digits) ==
    IF Len(digits) > 1 /\ Head(digits) = "0" THEN strip_zeros(Tail(digits)) ELSE digits

parse_u32(text) ==
    LET digits == IF text # <<>> /\ Head(text) = "+" THEN Tail(text) ELSE text
        significant == strip_zeros(digits)
    IN  IF digits = <<>> \/ \E i \in DOMAIN digits : ~is_ascii_digit(digits[i])
            THEN Err("ParseIntError")
        ELSE IF \/ Len(significant) > 10
                \/ Len(significant) = 10 /\ str_lt(Str("4294967295"), significant)
            THEN Err("ParseIntError")
        ELSE Ok(decimal_value(significant))

-----------------------------------------------------------------------------
(* Board codec (lib.rs)                                                     *)

\* the loop over the characters lo..hi of fen: a digit 1-8 gives that many
\* '1's, a '/' nothing, every other character itself
RECURSIVE expand_range(_, _, _)
expand_range(fen, lo, hi) ==
    IF lo > hi THEN <<>>
    ELSE IF lo = hi
        THEN IF Code[fen[lo]] >= Code["1"] /\ Code[fen[lo]] <= Code["8"]
                 THEN Repeat("1", to_digit(fen[lo]))
             ELSE IF fen[lo] = "/" THEN <<>>
             ELSE <<fen[lo]>>
    ELSE expand_range(fen, lo, (lo + hi) \div 2) \o expand_range(fen, (lo + hi) \div 2 + 1, hi)

expand_all(fen) == expand_range(fen, 1, Len(fen))

truncate(s, n) == IF Len(s) > n THEN SubSeq(s, 1, n) ELSE s

expand_fen(fen) == truncate(expand_all(fen), 64)

\* a '/' before every character whose 0-based index is a non-zero multiple
\* of 8, for the characters with the 0-based indices lo..hi
RECURSIVE with_slashes_range(_, _, _)
with_slashes_range(expanded, lo, hi) ==
    IF lo > hi THEN <<>>
    ELSE IF lo = hi
        THEN (IF lo % 8 = 0 /\ lo # 0 THEN <<"/">> ELSE <<>>) \o <<expanded[lo + 1]>>
    ELSE with_slashes_range(expanded, lo, (lo + hi) \div 2)
         \o with_slashes_range(expanded, (lo + hi) \div 2 + 1, hi)

with_slashes(expanded, i) == with_slashes_range(expanded, i, Len(expanded) - 1)

\* what the loop pushes for a pending count
pending(count) == IF count > 0 THEN to_string(count) ELSE <<>>

\* the run-length loop on two adjoining stretches of text: a stretch is
\* plain when it holds only '1's; lead is the number of its leading '1's,
\* body what the loop pushes from its first other character to its last,
\* trail the count that is pending at its end
join_runs(a, b) ==
    IF a.plain THEN [b EXCEPT !.lead = a.lead + b.lead]
    ELSE IF b.plain THEN [a EXCEPT !.trail = a.trail + b.lead]
    ELSE [plain |-> FALSE, lead |-> a.lead,
          body |-> a.body \o pending(a.trail + b.lead) \o b.body, trail |-> b.trail]

\* the run-length loop on the characters lo..hi of s, lo <= hi
RECURSIVE runs_of(_, _, _)
runs_of(s, lo, hi) ==
    IF lo = hi
        THEN IF s[lo] = "1" THEN [plain |-> TRUE, lead |-> 1, body |-> <<>>, trail |-> 0]
             ELSE [plain |-> FALSE, lead |-> 0, body |-> <<s[lo]>>, trail |-> 0]
    ELSE join_runs(runs_of(s, lo, (lo + hi) \div 2), runs_of(s, (lo + hi) \div 2 + 1, hi))

\* compress_runs without the flush of the trailing run of '1's
compress_runs_no_trailing(s, count) ==
    LET whole(r) == IF r.plain THEN <<>> ELSE pending(count + r.lead) \o r.body
    IN  IF s = <<>> THEN <<>> ELSE whole(runs_of(s, 1, Len(s)))

\* the run-length loop from a pending count, then the flush of the trailing
\* '1's
compress_runs(s, count) ==
    LET whole(r) == IF r.plain THEN pending(count + r.lead)
                    ELSE pending(count + r.lead) \o r.body \o pending(r.trail)
    IN  IF s = <<>> THEN pending(count) ELSE whole(runs_of(s, 1, Len(s)))

compress_fen(expanded) == compress_runs(with_slashes(expanded, 0), 0)

\* reverse_fen with the ranks in reverse order and each rank as it was
reverse_fen_ranks_only(fen) == join(Rev(split(fen, "/")), "/")

\* reverse_fen with the ranks joined without the '/' separator
reverse_fen_unjoined(fen) ==
    LET ranks == Rev(split(fen, "/"))
    IN  concat([i \in DOMAIN ranks |-> Rev(ranks[i])])

reverse_fen(fen) ==
    LET ranks == Rev(split(fen, "/"))
    IN  join([i \in DOMAIN ranks |-> Rev(ranks[i])], "/")

-----------------------------------------------------------------------------
(* Move model, applier and indexer (lib.rs; main.rs carries the same        *)
(* parse_move and apply_move)                                               *)

ChessMove(from, to, promotion) == [from |-> from, to |-> to, promotion |-> promotion]

parse_move(move_str, checks) ==
    IF Len(move_str) < 4 THEN Err("InvalidMove")
    ELSE IF ~is_ascii_digit(move_str[2]) \/ ~is_ascii_digit(move_str[4]) THEN Panic
    ELSE LET ff_raw == Code[move_str[1]] - Code["a"]
             fr_raw == 8 - to_digit(move_str[2])
             tf_raw == Code[move_str[3]] - Code["a"]
             tr_raw == 8 - to_digit(move_str[4])
             fm_raw == Wrap8(fr_raw) * 8
             tm_raw == Wrap8(tr_raw) * 8
             from_raw == Wrap8(fm_raw) + Wrap8(ff_raw)
             to_raw == Wrap8(tm_raw) + Wrap8(tf_raw)
             overflow == \E n \in {ff_raw, fr_raw, tf_raw, tr_raw,
                                   fm_raw, tm_raw, from_raw, to_raw} : ~Fits8(n)
             promotion == IF Len(move_str) > 4 THEN move_str[5] ELSE None
         IN  IF checks /\ overflow THEN Panic
             ELSE Ok(ChessMove(Wrap8(from_raw), Wrap8(to_raw), promotion))

\* s.replace_range(i..=i, c) on a 0-based index i < len
replace_at(s, i, c) == [s EXCEPT ![i + 1] = c]

\* apply_move with the two writes in the other order: the piece is placed
\* on to first, then from is cleared
apply_move_clear_last(fen, chess_move) ==
    LET on(expanded) ==
            IF chess_move.from >= Len(expanded) THEN Err("InvalidMove")
            ELSE LET from_char == expanded[chess_move.from + 1]
                     to_piece == IF chess_move.promotion # None
                                     THEN IF is_uppercase(from_char)
                                              THEN to_ascii_uppercase(chess_move.promotion)
                                              ELSE to_ascii_lowercase(chess_move.promotion)
                                     ELSE from_char
                 IN  IF chess_move.to >= Len(expanded) THEN Panic
                     ELSE Ok([fen |-> compress_fen(replace_at(
                                          replace_at(expanded, chess_move.to, to_piece),
                                          chess_move.from, "1")),
                              piece |-> from_char])
    IN  on(expand_fen(fen))

\* on(expanded) is the body after let mut expanded = expand_fen(fen)
apply_move(fen, chess_move) ==
    LET on(expanded) ==
            IF chess_move.from >= Len(expanded) THEN Err("InvalidMove")
            ELSE LET from_char == expanded[chess_move.from + 1]
                     to_piece == IF chess_move.promotion # None
                                     THEN IF is_uppercase(from_char)
                                              THEN to_ascii_uppercase(chess_move.promotion)
                                              ELSE to_ascii_lowercase(chess_move.promotion)
                                     ELSE from_char
                     cleared == replace_at(expanded, chess_move.from, "1")
                 IN  IF chess_move.to >= Len(cleared) THEN Panic
                     ELSE Ok([fen |-> compress_fen(replace_at(cleared, chess_move.to, to_piece)),
                              piece |-> from_char])
    IN  on(expand_fen(fen))

\* move_to_index mirroring through 64 instead of 63
move_to_index_flip64(move_str, reversed, checks) ==
    IF Len(move_str) < 4 THEN Err("InvalidMove")
    ELSE IF ~is_ascii_digit(move_str[2]) \/ ~is_ascii_digit(move_str[4]) THEN Panic
    ELSE LET ff_raw == Code[move_str[1]] - Code["a"]
             fr_raw == 8 - to_digit(move_str[2])
             fm_raw == Wrap8(fr_raw) * 8
             from_raw == Wrap8(ff_raw) + Wrap8(fm_raw)
             tf_raw == Code[move_str[3]] - Code["a"]
             tr_raw == 8 - to_digit(move_str[4])
             tm_raw == Wrap8(tr_raw) * 8
             to_raw == Wrap8(tf_raw) + Wrap8(tm_raw)
             overflow == \E n \in {ff_raw, fr_raw, tf_raw, tr_raw,
                                   fm_raw, tm_raw, from_raw, to_raw} : ~Fits8(n)
             abs(n) == IF n < 0 THEN 0 - n ELSE n
             flip(i) == Wrap8(abs(i - 64))
             from == IF reversed THEN flip(Wrap8(from_raw)) ELSE Wrap8(from_raw)
             to == IF reversed THEN flip(Wrap8(to_raw)) ELSE Wrap8(to_raw)
         IN  IF checks /\ overflow THEN Panic
             ELSE Ok(fmt02(from) \o <<",">> \o fmt02(to))

move_to_index(move_str, reversed, checks) ==
    IF Len(move_str) < 4 THEN Err("InvalidMove")
    ELSE IF ~is_ascii_digit(move_str[2]) \/ ~is_ascii_digit(move_str[4]) THEN Panic
    ELSE LET ff_raw == Code[move_str[1]] - Code["a"]
             fr_raw == 8 - to_digit(move_str[2])
             fm_raw == Wrap8(fr_raw) * 8
             from_raw == Wrap8(ff_raw) + Wrap8(fm_raw)
             tf_raw == Code[move_str[3]] - Code["a"]
             tr_raw == 8 - to_digit(move_str[4])
             tm_raw == Wrap8(tr_raw) * 8
             to_raw == Wrap8(tf_raw) + Wrap8(tm_raw)
             overflow == \E n \in {ff_raw, fr_raw, tf_raw, tr_raw,
                                   fm_raw, tm_raw, from_raw, to_raw} : ~Fits8(n)
             abs(n) == IF n < 0 THEN 0 - n ELSE n
             flip(i) == Wrap8(abs(i - 63))
             from == IF reversed THEN flip(Wrap8(from_raw)) ELSE Wrap8(from_raw)
             to == IF reversed THEN flip(Wrap8(to_raw)) ELSE Wrap8(to_raw)
         IN  IF checks /\ overflow THEN Panic
             ELSE Ok(fmt02(from) \o <<",">> \o fmt02(to))

-----------------------------------------------------------------------------
(* Configuration and puzzle records (main.rs)                               *)

\* Config as main builds it from the command line: the two piece lists are
\* lowercased, the theme tag and the id range are taken as written.  dry_run
\* is not set in this model.
make_config(args) ==
    [verbose |-> args.verbose,
     max_moves |-> args.max_moves,
     min_moves |-> args.min_moves,
     theme_tag |-> args.theme_tag,
     max_rating |-> args.max_rating,
     min_rating |-> args.min_rating,
     exclude_pieces |-> IF args.exclude_pieces = Absent THEN <<>>
                        ELSE to_lowercase(args.exclude_pieces[1]),
     last_move_pieces |-> to_lowercase(args.last_move_pieces),
     from_puzzle_id |-> args.from_puzzle_id,
     to_puzzle_id |-> args.to_puzzle_id,
     generate_rom |-> ~args.do_not_generate_rom]

\* record is the sequence of the fields of one CSV row
parse_puzzle_record(record) ==
    IF Len(record) < 8 THEN Err("Invalid record format")
    ELSE LET tokens == split_whitespace(record[2])
             themes == split(record[8], ",")
             rating == parse_u32(record[4])
         IN  IF rating.tag # "Ok" THEN rating
             ELSE Ok([id |-> record[1],
                      fen |-> IF tokens = <<>> THEN <<>> ELSE tokens[1],
                      moves |-> split_whitespace(record[3]),
                      rating |-> rating.val,
                      themes |-> [i \in DOMAIN themes |-> to_lowercase(trim(themes[i]))],
                      first_move |-> IF Len(tokens) >= 2 THEN tokens[2][1] ELSE "w"])

\* the alphabetic characters of the puzzle's fen, as they are written
piece_chars(puzzle) ==
    {puzzle.fen[i] : i \in {j \in DOMAIN puzzle.fen : is_ascii_alphabetic(puzzle.fen[j])}}

should_skip_puzzle(puzzle, cfg) ==
    IF puzzle.moves = <<>> THEN TRUE
    ELSE IF Len(puzzle.moves) > cfg.max_moves THEN TRUE
    ELSE IF Len(puzzle.moves) < cfg.min_moves THEN TRUE
    ELSE IF puzzle.rating > cfg.max_rating THEN TRUE
    ELSE IF puzzle.rating < cfg.min_rating THEN TRUE
    ELSE IF \E i \in DOMAIN cfg.exclude_pieces :
                cfg.exclude_pieces[i] \in piece_chars(puzzle) THEN TRUE
    ELSE IF /\ cfg.theme_tag # Absent
            /\ ~\E i \in DOMAIN puzzle.themes : str_contains(puzzle.themes[i], cfg.theme_tag[1])
         THEN TRUE
    ELSE IF cfg.from_puzzle_id # Absent /\ str_lt(puzzle.id, cfg.from_puzzle_id[1]) THEN TRUE
    ELSE IF cfg.to_puzzle_id # Absent /\ str_lt(cfg.to_puzzle_id[1], puzzle.id) THEN TRUE
    ELSE FALSE

\* pieces.join(", ")
RECURSIVE join_comma_space(_)
join_comma_space(pieces) ==
    IF pieces = <<>> THEN <<>>
    ELSE IF Len(pieces) = 1 THEN pieces[1]
    ELSE pieces[1] \o Str(", ") \o join_comma_space(Tail(pieces))

\* the text verbose mode prints for a puzzle the filter rejected
skip_reason(puzzle, cfg) ==
    IF puzzle.moves = <<>> THEN Str("no moves")
    ELSE IF Len(puzzle.moves) > cfg.max_moves
        THEN Str("move count ") \o to_string(Len(puzzle.moves)) \o Str(" > max ")
             \o to_string(cfg.max_moves)
    ELSE IF Len(puzzle.moves) < cfg.min_moves
        THEN Str("move count ") \o to_string(Len(puzzle.moves)) \o Str(" < min ")
             \o to_string(cfg.min_moves)
    ELSE IF puzzle.rating > cfg.max_rating
        THEN Str("rating ") \o to_string(puzzle.rating) \o Str(" > max ")
             \o to_string(cfg.max_rating)
    ELSE IF puzzle.rating < cfg.min_rating
        THEN Str("rating ") \o to_string(puzzle.rating) \o Str(" < min ")
             \o to_string(cfg.min_rating)
    ELSE IF /\ cfg.theme_tag # Absent
            /\ ~\E i \in DOMAIN puzzle.themes : str_contains(puzzle.themes[i], cfg.theme_tag[1])
        THEN Str("missing required theme '") \o cfg.theme_tag[1] \o Str("' (has: ")
             \o join_comma_space(puzzle.themes) \o Str(")")
    ELSE IF \E i \in DOMAIN cfg.exclude_pieces : cfg.exclude_pieces[i] \in piece_chars(puzzle)
        THEN LET first == CHOOSE i \in DOMAIN cfg.exclude_pieces :
                              /\ cfg.exclude_pieces[i] \in piece_chars(puzzle)
                              /\ \A j \in 1..(i - 1) :
                                     cfg.exclude_pieces[j] \notin piece_chars(puzzle)
             IN  Str("contains excluded piece '") \o <<cfg.exclude_pieces[first]>> \o Str("'")
    ELSE IF cfg.from_puzzle_id # Absent /\ str_lt(puzzle.id, cfg.from_puzzle_id[1])
        THEN Str("ID ") \o puzzle.id \o Str(" < from ID ") \o cfg.from_puzzle_id[1]
    ELSE IF cfg.to_puzzle_id # Absent /\ str_lt(cfg.to_puzzle_id[1], puzzle.id)
        THEN Str("ID ") \o puzzle.id \o Str(" > to ID ") \o cfg.to_puzzle_id[1]
    ELSE Str("unknown reason (this shouldn't happen)")

-----------------------------------------------------------------------------
(* Puzzle emitter (main.rs, process_puzzle); dir is the content of the      *)
(* fenpuzzles directory, a function from file name to text                  *)

\* what the file system does to the sink operations of one process_puzzle
\* call: nothing, or one of them returns an io::Error.  fs::write creates or
\* truncates the file and then writes the text with write_all: the k-th
\* fs::write fails when it opens the file ("open": the directory stays as it
\* is) or while it writes ("write": the file is there and holds the first
\* written bytes of the text, none of them when the first write fails).  The
\* k-th fs::remove_file that fails ("remove") leaves the directory as it is.
NoFault == [op |-> "none", k |-> 0, written |-> 0]

\* the k-th fs::write is one that fails when it opens the file
open_fails(fault, k) == fault.op = "open" /\ fault.k = k

\* the k-th fs::write is one that fails before all of content is written
write_fails(fault, k, content) ==
    fault.op = "write" /\ fault.k = k /\ fault.written < Len(content)

\* the k-th fs::remove_file is one that fails
remove_fails(fault, k) == fault.op = "remove" /\ fault.k = k

write_file(dir, name, content) ==
    [n \in DOMAIN dir \cup {name} |-> IF n = name THEN content ELSE dir[n]]

remove_file(dir, name) == [n \in DOMAIN dir \ {name} |-> dir[n]]

\* the file name of move move_num's record inside fenpuzzles/
outfile(puzzle, cfg, move_num) ==
    Str("puzzle-") \o puzzle.id \o <<"-">> \o to_string(puzzle.rating) \o <<"-">>
    \o (IF cfg.theme_tag = Absent THEN Str("none") ELSE cfg.theme_tag[1])
    \o <<"-">> \o fmt02(move_num) \o Str(".txt")

\* first pass: every move parsed and applied in order on a scratch board;
\* the number of moves processed, or the first failure
RECURSIVE validate_moves(_, _, _, _)
validate_moves(current_fen, moves, processed_moves, checks) ==
    IF moves = <<>> THEN Ok(processed_moves)
    ELSE LET after_apply(applied) ==
                 IF applied.tag # "Ok" THEN applied
                 ELSE validate_moves(applied.val.fen, Tail(moves), processed_moves + 1, checks)
             after_parse(parsed) ==
                 IF parsed.tag # "Ok" THEN parsed
                 ELSE after_apply(apply_move(current_fen, parsed.val))
         IN  after_parse(parse_move(Head(moves), checks))

\* the second pass with every move applied to the starting board
RECURSIVE emit_records_from_start(_, _, _, _, _, _, _, _)
emit_records_from_start(puzzle, cfg, move_num, current_fen, moved_piece, dir, checks, fault) ==
    IF move_num > Len(puzzle.moves)
        THEN [tag |-> "Ok", dir |-> dir, moved_piece |-> moved_piece]
    ELSE LET move_str == puzzle.moves[move_num]
             reversed == puzzle.first_move = "w"
             after_parse(parsed) ==
                 IF parsed.tag = "Ok" THEN apply_move(puzzle.fen, parsed.val) ELSE parsed
             write(applied, imove) ==
                 IF applied.tag # "Ok"
                     THEN [tag |-> applied.tag, err |-> "InvalidMove", dir |-> dir]
                 ELSE IF imove.tag # "Ok"
                     THEN [tag |-> imove.tag, err |-> "InvalidMove", dir |-> dir]
                 ELSE LET new_fen == applied.val.fen
                          output_fen == IF reversed THEN reverse_fen(new_fen) ELSE new_fen
                          content == puzzle.id \o <<",">> \o expand_fen(output_fen) \o <<",">>
                                     \o imove.val \o <<",">> \o to_string(move_num)
                                     \o <<",">> \o to_string(Len(puzzle.moves))
                      IN  IF open_fails(fault, move_num)
                              THEN [tag |-> "Err", err |-> "Io", dir |-> dir]
                          ELSE IF write_fails(fault, move_num, content)
                              THEN [tag |-> "Err", err |-> "Io",
                                    dir |-> write_file(dir, outfile(puzzle, cfg, move_num),
                                                       SubSeq(content, 1, fault.written))]
                          ELSE emit_records_from_start(puzzle, cfg, move_num + 1, new_fen, applied.val.piece,
                                       write_file(dir, outfile(puzzle, cfg, move_num), content),
                                       checks, fault)
         IN  write(after_parse(parse_move(move_str, checks)),
                   move_to_index(move_str, reversed, checks))

\* second pass from move number move_num on: one record written per move
RECURSIVE emit_records(_, _, _, _, _, _, _, _)
emit_records(puzzle, cfg, move_num, current_fen, moved_piece, dir, checks, fault) ==
    IF move_num > Len(puzzle.moves)
        THEN [tag |-> "Ok", dir |-> dir, moved_piece |-> moved_piece]
    ELSE LET move_str == puzzle.moves[move_num]
             reversed == puzzle.first_move = "w"
             after_parse(parsed) ==
                 IF parsed.tag = "Ok" THEN apply_move(current_fen, parsed.val) ELSE parsed
             write(applied, imove) ==
                 IF applied.tag # "Ok"
                     THEN [tag |-> applied.tag, err |-> "InvalidMove", dir |-> dir]
                 ELSE IF imove.tag # "Ok"
                     THEN [tag |-> imove.tag, err |-> "InvalidMove", dir |-> dir]
                 ELSE LET new_fen == applied.val.fen
                          output_fen == IF reversed THEN reverse_fen(new_fen) ELSE new_fen
                          content == puzzle.id \o <<",">> \o expand_fen(output_fen) \o <<",">>
                                     \o imove.val \o <<",">> \o to_string(move_num)
                                     \o <<",">> \o to_string(Len(puzzle.moves))
                      IN  IF open_fails(fault, move_num)
                              THEN [tag |-> "Err", err |-> "Io", dir |-> dir]
                          ELSE IF write_fails(fault, move_num, content)
                              THEN [tag |-> "Err", err |-> "Io",
                                    dir |-> write_file(dir, outfile(puzzle, cfg, move_num),
                                                       SubSeq(content, 1, fault.written))]
                          ELSE emit_records(puzzle, cfg, move_num + 1, new_fen, applied.val.piece,
                                       write_file(dir, outfile(puzzle, cfg, move_num), content),
                                       checks, fault)
         IN  write(after_parse(parse_move(move_str, checks)),
                   move_to_index(move_str, reversed, checks))

\* the clean-up loop: for i in 0..moves.len(), remove record i + 1; a
\* removal that fails ends the loop
RECURSIVE remove_records(_, _, _, _, _)
remove_records(puzzle, cfg, i, dir, fault) ==
    IF i >= Len(puzzle.moves) THEN dir
    ELSE IF remove_fails(fault, i + 1) THEN dir
    ELSE remove_records(puzzle, cfg, i + 1,
                        remove_file(dir, outfile(puzzle, cfg, i + 1)), fault)

\* the trailing-piece rule: the lowercase of the piece moved last is not
\* one of the configured last-move pieces
trailing_piece_rejects(moved_piece, cfg) ==
    to_ascii_lowercase(moved_piece) \notin Range(cfg.last_move_pieces)

\* result is what process_puzzle returns, dir the directory afterwards,
\* rejected whether the trailing-piece rule started the clean-up
process_puzzle(puzzle, cfg, dir, checks, fault) ==
    IF puzzle.fen = <<>> THEN [result |-> Panic, dir |-> dir, rejected |-> FALSE]
    ELSE LET finish(validated, emitted) ==
                 IF validated.tag # "Ok"
                     THEN [result |-> validated, dir |-> dir, rejected |-> FALSE]
                 ELSE IF emitted.tag = "Panic"
                     THEN [result |-> Panic, dir |-> emitted.dir, rejected |-> FALSE]
                 ELSE IF emitted.tag = "Err"
                     THEN [result |-> Err(emitted.err), dir |-> emitted.dir,
                           rejected |-> FALSE]
                 ELSE IF trailing_piece_rejects(emitted.moved_piece, cfg)
                     THEN [result |-> IF fault.op = "remove" /\ fault.k <= Len(puzzle.moves)
                                          THEN Err("Io") ELSE Ok(validated.val),
                           dir |-> remove_records(puzzle, cfg, 0, emitted.dir, fault),
                           rejected |-> TRUE]
                 ELSE [result |-> Ok(validated.val), dir |-> emitted.dir, rejected |-> FALSE]
         IN  finish(validate_moves(puzzle.fen, puzzle.moves, 0, checks),
                    emit_records(puzzle, cfg, 1, puzzle.fen, " ", dir, checks, fault))

-----------------------------------------------------------------------------
(* ROM assembler (main.rs, generate_rom)                                    *)

ROW_SIZE == 96

FLASH_SIZE == 16777216

CONFIG_SECTOR_SIZE == 4096

MAX_ROM_PAGES == (FLASH_SIZE - CONFIG_SECTOR_SIZE) \div ROW_SIZE

MAX_ROM_DATA_SIZE == FLASH_SIZE - CONFIG_SECTOR_SIZE

\* A Vec<u8> is kept as a sequence of runs: the bytes of a run are its
\* bytes repeated times times, one after the other.  A buffer of 16 MB that
\* is mostly fill stays a few runs long.
run(bytes, times) == [bytes |-> bytes, times |-> times]

\* v.len()
RECURSIVE vec_len(_)
vec_len(v) ==
    IF v = <<>> THEN 0
    ELSE Len(Head(v).bytes) * Head(v).times + vec_len(Tail(v))

\* v.extend_from_slice(bytes), and the same call made times times
extend_from_slice(v, bytes, times) ==
    IF bytes = <<>> \/ times = 0 THEN v ELSE Append(v, run(bytes, times))

\* the first n bytes of v
RECURSIVE vec_truncate(_, _)
vec_truncate(v, n) ==
    IF n = 0 \/ v = <<>> THEN <<>>
    ELSE LET r == Head(v)
             size == Len(r.bytes) * r.times
             whole == n \div Len(r.bytes)
             part == n % Len(r.bytes)
         IN  IF size <= n THEN <<r>> \o vec_truncate(Tail(v), n - size)
             ELSE extend_from_slice(extend_from_slice(<<>>, r.bytes, whole),
                                    SubSeq(r.bytes, 1, part), 1)

\* v.resize(n, 0): cut to n bytes, or filled with zeros up to n
resize(v, n) ==
    IF vec_len(v) >= n THEN vec_truncate(v, n)
    ELSE extend_from_slice(v, <<0>>, n - vec_len(v))

\* the paths read_dir yields that end in ".txt"
txt_files(dir) == {n \in DOMAIN dir : ends_with(n, Str(".txt"))}

\* the grouping loop over the sorted file names: a file without a hyphen
\* joins no group, a new base closes the current group
RECURSIVE group_by_base(_, _, _, _)
group_by_base(names, groups, current_group, current_base) ==
    IF names = <<>>
        THEN IF current_group # <<>> THEN Append(groups, current_group) ELSE groups
    ELSE LET filename == Head(names)
             last_hyphen == rfind(filename, "-")
             base == SubSeq(filename, 1, last_hyphen)
         IN  IF last_hyphen < 0
                 THEN group_by_base(Tail(names), groups, current_group, current_base)
             ELSE IF base # current_base
                 THEN group_by_base(Tail(names),
                                    IF current_group # <<>> THEN Append(groups, current_group)
                                    ELSE groups,
                                    <<filename>>, base)
             ELSE group_by_base(Tail(names), groups, Append(current_group, filename),
                                current_base)

\* The archive: the record files puzzle-00-1000-none-01.txt,
\* puzzle-00-1000-none-02.txt, ... that a run over a large database left in
\* fenpuzzles.  They are too many to list one by one, so the directory is
\* the files listed by name together with the number of archive files; every
\* archive file holds the same text.
ArchiveBase == Str("puzzle-00-1000-none")

ArchiveName(k) == ArchiveBase \o <<"-">> \o fmt02(k) \o Str(".txt")

ArchiveRecord == Str("00,") \o Repeat("1", 63) \o Str("K,") \o Str("08,00,1,1")

\* the files of one group: the archive's files (their number) or the files
\* listed by name
archive_group(n) == [names |-> <<>>, archived |-> n]

named_group(names) == [names |-> names, archived |-> 0]

\* group.len()
group_len(g) == g.archived + Len(g.names)

\* puzzle_groups after the grouping loop over the sorted listing of dir and
\* n archive files.  No listed name starts with the archive's base, so the
\* listed names that sort before it are grouped first, the archive's files
\* form one group, and the listed names that sort after it follow.
listed_groups(dir, n) ==
    LET names == sorted(txt_files(dir))
        before == SelectSeq(names, LAMBDA f : str_lt(f, ArchiveBase))
        after == SelectSeq(names, LAMBDA f : ~str_lt(f, ArchiveBase))
        named(groups) == [i \in 1..Len(groups) |-> named_group(groups[i])]
    IN  IF n = 0 THEN named(group_by_base(names, <<>>, <<>>, <<>>))
        ELSE named(group_by_base(before, <<>>, <<>>, <<>>))
             \o <<archive_group(n)>>
             \o named(group_by_base(after, <<>>, <<>>, <<>>))

\* the fit check that lets every group through while the buffer is not over
group_fits_unsized(rom_len, group_size) == ~(rom_len > MAX_ROM_DATA_SIZE)

\* the negation of the check that stops packing
group_fits(rom_len, group_size) == ~(rom_len + group_size * ROW_SIZE > MAX_ROM_DATA_SIZE)

\* the size test that lets a text of up to two rows through
record_too_large_for_two_rows(trimmed) == Len(trimmed) > 2 * ROW_SIZE

\* the size test on the trimmed text of a record
record_too_large(trimmed) == Len(trimmed) > ROW_SIZE

\* the bytes of one row with the text right-padded with spaces
row_bytes_space_padded(trimmed) ==
    [i \in 1..ROW_SIZE |-> IF i <= Len(trimmed) THEN Code[trimmed[i]] ELSE Code[" "]]

\* the bytes of one row: the trimmed text, right-padded with zeros
row_bytes(trimmed) ==
    [i \in 1..ROW_SIZE |-> IF i <= Len(trimmed) THEN Code[trimmed[i]] ELSE 0]

\* (n as u32).to_le_bytes()
le_bytes_u32(n) ==
    <<n % 256, (n \div 256) % 256, (n \div 65536) % 256, (n \div 16777216) % 256>>

\* (n as u32).to_be_bytes()
be_bytes_u32(n) == Rev(le_bytes_u32(n))

\* the header with its 32-bit fields written most significant byte first
config_sector_big_endian(row_count) ==
    LET fields == <<17, 19, 23, 25>> \o be_bytes_u32(row_count)
                  \o be_bytes_u32(row_count * ROW_SIZE)
                  \o <<1>> \o <<1>> \o <<0, 0>> \o <<4>> \o <<0, 0, 0>>
                  \o be_bytes_u32(ROW_SIZE) \o [i \in 1..12 |-> 0]
    IN  resize(extend_from_slice(<<>>, fields, 1), CONFIG_SECTOR_SIZE)

\* magic 0x11131719, num_pages, total_size, num_types, font_size, reserved,
\* type0 (ChessPuzzle = 4), type1-3, size0, size1-3, zero fill
config_sector(row_count) ==
    LET fields == <<25, 23, 19, 17>> \o le_bytes_u32(row_count)
                  \o le_bytes_u32(row_count * ROW_SIZE)
                  \o <<1>> \o <<1>> \o <<0, 0>> \o <<4>> \o <<0, 0, 0>>
                  \o le_bytes_u32(ROW_SIZE) \o [i \in 1..12 |-> 0]
    IN  resize(extend_from_slice(<<>>, fields, 1), CONFIG_SECTOR_SIZE)

-----------------------------------------------------------------------------
(* Inputs of the program: command lines, CSV files, earlier directory content *)

\* the most different CSV rows one run reads
MaxRecords == 2

\* the latest write or removal of one process_puzzle call that may fail
MaxFaultAt == 2

\* the most sink operations that fail during one run
MaxFaults == 1

\* A write that fails can have written any number of bytes of the text; the
\* numbers taken here are none, and the ten bytes that end inside the board
\* of a record.
WrittenBytes == {0, 10}

SinkFaults ==
    {NoFault}
    \cup {[op |-> o, k |-> k, written |-> 0] : o \in {"open", "remove"}, k \in 1..MaxFaultAt}
    \cup {[op |-> "write", k |-> k, written |-> n] : k \in 1..MaxFaultAt, n \in WrittenBytes}

\* the defaults of the command line
DefaultArgs ==
    [verbose |-> FALSE, max_moves |-> 10, min_moves |-> 1, theme_tag |-> Absent,
     max_rating |-> 3000, min_rating |-> 500,
     exclude_pieces |-> Absent, last_move_pieces |-> Str("prnbkq"),
     from_puzzle_id |-> Absent, to_puzzle_id |-> Absent, do_not_generate_rom |-> FALSE]

\* puzzles with the theme mate whose last move is a pawn's
MateArgs ==
    [DefaultArgs EXCEPT !.theme_tag = Some(Str("mate")), !.last_move_pieces = Str("P")]

CommandLines ==
    {DefaultArgs,
     [DefaultArgs EXCEPT !.exclude_pieces = Some(Str("Q"))],
     MateArgs,
     [DefaultArgs EXCEPT !.from_puzzle_id = Some(Str("00B")), !.to_puzzle_id = Some(Str("00C")),
                         !.min_moves = 2, !.do_not_generate_rom = TRUE],
     [DefaultArgs EXCEPT !.min_rating = 1000, !.max_rating = 1600, !.max_moves = 2,
                         !.verbose = TRUE],
     [DefaultArgs EXCEPT !.exclude_pieces = Some(Str("k")), !.theme_tag = Some(Str("fork")),
                         !.verbose = TRUE]}

\* the header rows of the CSV files: the eight columns the rows of the
\* catalogue have, or the first three of them
LongHeader ==
    <<Str("PuzzleId"), Str("FEN"), Str("Moves"), Str("Rating"), Str("RatingDeviation"),
      Str("Popularity"), Str("NbPlays"), Str("Themes")>>

ShortHeader == SubSeq(LongHeader, 1, 3)

\* the catalogue the CSV rows are taken from: id, FEN, moves, rating, three
\* fields the program never reads, themes.  Two moves, one move, three
\* moves, a row that is too short, an empty move list, a second move that is
\* too short to parse, and a second move to rank 9.
CsvRows ==
    <<<<Str("00C"), Str("4k3/8/8/8/8/8/8/3QK3 w - - 0 1"), Str("d1d8 e8d8"),
        Str("900"), <<>>, <<>>, <<>>, Str("crushing")>>,
      <<Str("00A"), Str("8/P7/8/8/8/8/7p/8 w - - 0 1"), Str("a7a8q"),
        Str("1500"), <<>>, <<>>, <<>>, Str("mate,short")>>,
      <<Str("00B"), Str("r3k2r/1P4p1/8/8/8/8/1p4P1/R3K2R b KQkq - 0 1"), Str("b2b1q e1e2 b1b7"),
        Str("1800"), <<>>, <<>>, <<>>, Str("mateIn2, endgame")>>,
      <<Str("00D"), Str("8/8/8/8/8/8/8/8 w - - 0 1"), Str("a1a2")>>,
      <<Str("00E"), Str("8/P7/8/8/8/8/7p/8 w - - 0 1"), <<>>,
        Str("1500"), <<>>, <<>>, <<>>, Str("mate")>>,
      <<Str("00F"), Str("8/P7/8/8/8/8/7p/8 b - - 0 1"), Str("h2h1r e2"),
        Str("1500"), <<>>, <<>>, <<>>, Str("short")>>,
      <<Str("00G"), Str("8/P7/8/8/8/8/7p/8 w - - 0 1"), Str("a7a8q a8a9"),
        Str("1500"), <<>>, <<>>, <<>>, Str("mate")>>>>

\* the sequences of at most n rows that keep the order of the catalogue
RECURSIVE Excerpts(_, _)
Excerpts(rows, n) ==
    IF rows = <<>> \/ n = 0 THEN {<<>>}
    ELSE Excerpts(Tail(rows), n)
         \cup {<<Head(rows)>> \o rest : rest \in Excerpts(Tail(rows), n - 1)}

\* The rows of a CSV file are kept as runs: a row and the number of times
\* the file holds it in a row, so that a file of some hundred thousand rows
\* stays short.  Neighbouring runs hold different rows.
each_once(rows) == [i \in 1..Len(rows) |-> [row |-> rows[i], times |-> 1]]

\* the lengths of the long runs: the single-move row 00A as often as the
\* data region has rows, or once less
LongRuns == {MAX_ROM_PAGES - 1, MAX_ROM_PAGES}

\* the CSV files: a header and an excerpt of the catalogue, or the long
\* header, a long run of row 00A and at most one of the rows after it
CsvFiles ==
    {[headers |-> h, records |-> each_once(rows)] :
        h \in {LongHeader, ShortHeader}, rows \in Excerpts(CsvRows, MaxRecords)}
    \cup {[headers |-> LongHeader,
           records |-> <<[row |-> CsvRows[2], times |-> t]>> \o each_once(rows)] :
             t \in LongRuns, rows \in Excerpts(SubSeq(CsvRows, 3, Len(CsvRows)), 1)}

\* what fenpuzzles may hold before the run: nothing; two records of one
\* puzzle (the second with a trailing blank), a text file without a hyphen
\* and a file that is no .txt; one record longer than a row; or that record
\* and an archive one file short of the rows of the data region
EarlierRecord(move_num) ==
    Str("000,") \o Repeat("1", 63) \o Str("K,") \o Str("08,00,") \o to_string(move_num) \o Str(",2")

OversizedRecordDir ==
    write_file(<<>>, Str("puzzle-zzz-1000-none-01.txt"),
               Str("zzz,") \o Repeat("1", ROW_SIZE) \o Str(",08,00,1,1"))

EmptyDir == [files |-> <<>>, archive |-> 0]

EarlierDirs ==
    {EmptyDir,
     [files |-> write_file(write_file(write_file(write_file(<<>>,
                    Str("puzzle-000-1000-none-01.txt"), EarlierRecord(1)),
                    Str("puzzle-000-1000-none-02.txt"), EarlierRecord(2) \o Str(" ")),
                    Str("README.txt"), Str("records of the last run")),
                    Str("puzzle-000-1000-none-03.md"), Str("notes")),
      archive |-> 0],
     [files |-> OversizedRecordDir, archive |-> 0],
     [files |-> OversizedRecordDir, archive |-> MAX_ROM_PAGES - 1]}

\* the runs: every command line with an empty directory, and the two
\* command lines that differ in the trailing-piece rule with every earlier
\* directory
Runs ==
    {[args |-> args, dir |-> EmptyDir] : args \in CommandLines}
    \cup {[args |-> args, dir |-> dir] : args \in {DefaultArgs, MateArgs}, dir \in EarlierDirs}

-----------------------------------------------------------------------------
(* The program (main.rs, main and generate_rom)                             *)

MainIdle ==
    /\ config = None /\ headers = <<>> /\ records = <<>> /\ puzzle_count = 0
    /\ page_count = 0 /\ skipped_count = 0 /\ current_puzzle_pages = 0
    /\ files = <<>> /\ archive = 0 /\ io_errors = 0
    /\ last = [step |-> "none"] /\ pc = "idle"

RomIdle ==
    /\ puzzle_groups = <<>> /\ group = named_group(<<>>) /\ rom_data = <<>>
    /\ actual_puzzle_count = 0 /\ actual_file_count = 0 /\ rom_file = Absent

\* a row whose outcome depends on the build profile: one of its moves
\* overflows u8 when it is parsed
ProfileMatters(record) ==
    /\ Len(record) >= 3
    /\ \E m \in Range(split_whitespace(record[3])) : parse_move(m, TRUE) # parse_move(m, FALSE)

Init ==
    /\ fn = "none" /\ fn_in = None /\ fn_out = None
    /\ \E start \in Runs : /\ config = make_config(start.args)
                            /\ files = start.dir.files
                            /\ archive = start.dir.archive
    /\ \E file \in CsvFiles : headers = file.headers /\ records = file.records
    /\ overflow_checks \in (IF \E i \in DOMAIN records : ProfileMatters(records[i].row)
                             THEN BOOLEAN ELSE {TRUE})
    /\ puzzle_count = 0 /\ page_count = 0 /\ skipped_count = 0 /\ current_puzzle_pages = 0
    /\ io_errors = 0
    /\ last = [step |-> "none"]
    /\ pc = "read"
    /\ RomIdle

\* the reader has no flexible lengths: the first row whose number of fields
\* differs from the header's is an Err(UnequalLengths), and collecting the
\* rows returns it from main before any row is processed
ReadRecords ==
    /\ pc = "read"
    /\ pc' = IF \A i \in DOMAIN records : Len(records[i].row) = Len(headers)
                 THEN "loop" ELSE "read_failed"
    /\ UNCHANGED <<overflow_checks, fnVars, config, headers, records, puzzle_count,
                   page_count, skipped_count, current_puzzle_pages, files, archive, io_errors, last,
                   romVars>>

\* the faults that can strike the call for puzzle: it writes, and removes,
\* no more records than the puzzle has moves, and the sink fails at most
\* MaxFaults times during a run.  Of the copies of a row that the file holds
\* in a row, the sink fails at the first or at the last one: a fault at a
\* copy between them is repaired by the copy after it, which writes, and
\* removes, the same records.
faults_of(puzzle) ==
    IF io_errors >= MaxFaults THEN {NoFault}
    ELSE {fault \in SinkFaults : fault.k <= Len(puzzle.moves)}

\* the capacity check at the head of the loop body
capacity_reached == page_count + current_puzzle_pages > MAX_ROM_PAGES

\* the rows left when the loop has read copies copies of the first row
rows_after(copies) ==
    IF copies = Head(records).times THEN Tail(records)
    ELSE <<[Head(records) EXCEPT !.times = @ - copies]>> \o Tail(records)

\* the row the loop reads next is a further copy of the row it read last
next_is_copy == last.step # "none" /\ last.record = Head(records).row

\* the row the loop reads next is a further copy and not the last one
next_is_inner_copy == next_is_copy /\ Head(records).times > 1

\* one iteration of the loop over the rows: the row, the first or the last
\* copy of its run, is parsed, filtered and processed
ProcessRecord ==
    /\ pc = "loop" /\ records # <<>> /\ ~capacity_reached /\ ~next_is_inner_copy
    /\ \E record \in {Head(records).row}, parsed \in {parse_puzzle_record(Head(records).row)} :
           /\ records' = rows_after(1)
           /\ IF parsed.tag # "Ok"
                  THEN /\ last' = [step |-> "parse error", record |-> record]
                       /\ UNCHANGED <<puzzle_count, page_count, skipped_count,
                                      current_puzzle_pages, files, io_errors, pc>>
              ELSE IF should_skip_puzzle(parsed.val, config)
                  THEN /\ skipped_count' = skipped_count + 1
                       /\ last' = [step |-> "skipped", record |-> record, puzzle |-> parsed.val,
                                   printed |-> IF config.verbose
                                                   THEN Some(skip_reason(parsed.val, config))
                                                   ELSE Absent]
                       /\ UNCHANGED <<puzzle_count, page_count, current_puzzle_pages, files,
                                      io_errors, pc>>
              ELSE \E done \in {process_puzzle(parsed.val, config, files, overflow_checks, fault)
                                   : fault \in faults_of(parsed.val)} :
                       /\ files' = done.dir
                       /\ io_errors' = IF done.result = Err("Io") THEN io_errors + 1
                                       ELSE io_errors
                       /\ last' = [step |-> "processed", record |-> record,
                                   puzzle |-> parsed.val, result |-> done.result,
                                   rejected |-> done.rejected]
                       /\ IF done.result.tag = "Ok"
                              THEN /\ current_puzzle_pages' = done.result.val
                                   /\ page_count' = page_count + done.result.val
                                   /\ puzzle_count' = puzzle_count + 1
                                   /\ UNCHANGED <<skipped_count, pc>>
                          ELSE /\ pc' = IF done.result.tag = "Panic" THEN "panicked" ELSE pc
                               /\ UNCHANGED <<puzzle_count, page_count, skipped_count,
                                              current_puzzle_pages>>
    /\ UNCHANGED <<overflow_checks, fnVars, config, headers, archive, romVars>>

\* the number of the copies of a row of pages pages that the loop processes
\* before the capacity check breaks out of it: the first copy has passed the
\* check, a later one passes it while the pages counted and the pages of
\* the copy before it are not over MAX_ROM_PAGES
copies_processed(times, pages) ==
    IF pages = 0 THEN times
    ELSE LET room == (MAX_ROM_PAGES - page_count) \div pages
         IN  IF room < 1 THEN 1 ELSE IF room < times THEN room ELSE times

\* the iterations of the loop over the further copies of the row read last
\* that come before the last copy, taken together, with a sink that works:
\* every copy is parsed, filtered and processed as the copy before it, and
\* writes or removes the same records.  The last copy is left to an
\* iteration of its own.
RepeatRecord ==
    /\ pc = "loop" /\ records # <<>> /\ ~capacity_reached /\ next_is_inner_copy
    /\ \E record \in {Head(records).row}, parsed \in {parse_puzzle_record(Head(records).row)},
          times \in {Head(records).times - 1} :
           IF parsed.tag # "Ok"
               THEN /\ records' = rows_after(times)
                    /\ last' = [step |-> "parse error", record |-> record]
                    /\ UNCHANGED <<puzzle_count, page_count, skipped_count,
                                   current_puzzle_pages, files, pc>>
           ELSE IF should_skip_puzzle(parsed.val, config)
               THEN /\ records' = rows_after(times)
                    /\ skipped_count' = skipped_count + times
                    /\ last' = [step |-> "skipped", record |-> record, puzzle |-> parsed.val,
                                printed |-> IF config.verbose
                                                THEN Some(skip_reason(parsed.val, config))
                                                ELSE Absent]
                    /\ UNCHANGED <<puzzle_count, page_count, current_puzzle_pages, files, pc>>
           ELSE \E done \in {process_puzzle(parsed.val, config, files, overflow_checks, NoFault)} :
                    /\ files' = done.dir
                    /\ last' = [step |-> "processed", record |-> record,
                                puzzle |-> parsed.val, result |-> done.result,
                                rejected |-> done.rejected]
                    /\ IF done.result.tag = "Ok"
                           THEN \E copies \in {copies_processed(times, done.result.val)} :
                                    /\ records' = rows_after(copies)
                                    /\ current_puzzle_pages' = done.result.val
                                    /\ page_count' = page_count + copies * done.result.val
                                    /\ puzzle_count' = puzzle_count + copies
                                    /\ UNCHANGED <<skipped_count, pc>>
                       ELSE IF done.result.tag = "Panic"
                           THEN /\ records' = rows_after(1)
                                /\ pc' = "panicked"
                                /\ UNCHANGED <<puzzle_count, page_count, skipped_count,
                                               current_puzzle_pages>>
                       ELSE /\ records' = rows_after(times)
                            /\ UNCHANGED <<puzzle_count, page_count, skipped_count,
                                           current_puzzle_pages, pc>>
    /\ UNCHANGED <<overflow_checks, fnVars, config, headers, archive, io_errors, romVars>>

\* the loop ends (no row left, or the capacity check breaks out of it);
\* with ROM generation enabled generate_rom starts: the old image is
\* removed, the .txt files are listed, sorted and grouped
FinishLoop ==
    /\ pc = "loop" /\ (records = <<>> \/ capacity_reached)
    /\ IF config.generate_rom
           THEN /\ pc' = "rom_groups"
                /\ rom_file' = Absent
                /\ puzzle_groups' = listed_groups(files, archive)
                /\ UNCHANGED <<group, rom_data, actual_puzzle_count, actual_file_count>>
           ELSE /\ pc' = "done"
                /\ UNCHANGED romVars
    /\ UNCHANGED <<overflow_checks, fnVars, config, headers, records, puzzle_count,
                   page_count, skipped_count, current_puzzle_pages, files, archive,
                   io_errors, last>>

\* the next group fits: its files are packed next
RomBeginGroup ==
    /\ pc = "rom_groups" /\ puzzle_groups # <<>>
    /\ group_fits(vec_len(rom_data), group_len(Head(puzzle_groups)))
    /\ group' = Head(puzzle_groups)
    /\ puzzle_groups' = Tail(puzzle_groups)
    /\ pc' = "rom_files"
    /\ UNCHANGED <<overflow_checks, fnVars, config, headers, records, puzzle_count,
                   page_count, skipped_count, current_puzzle_pages, files, archive, io_errors, last,
                   rom_data, actual_puzzle_count, actual_file_count, rom_file>>

\* one file of the current group: read, trimmed and packed into its row, or
\* the Err that ends generate_rom when the text is longer than a row
RomPackFile ==
    /\ pc = "rom_files" /\ group.archived = 0 /\ group.names # <<>>
    /\ LET trimmed == trim_end(files[Head(group.names)])
       IN  IF record_too_large(trimmed)
               THEN /\ pc' = "failed"
                    /\ UNCHANGED <<group, rom_data, actual_puzzle_count, actual_file_count>>
           ELSE /\ rom_data' = extend_from_slice(rom_data, row_bytes(trimmed), 1)
                /\ actual_file_count' = actual_file_count + 1
                /\ group' = named_group(Tail(group.names))
                /\ IF Tail(group.names) = <<>>
                       THEN /\ actual_puzzle_count' = actual_puzzle_count + 1
                            /\ pc' = "rom_groups"
                       ELSE UNCHANGED <<actual_puzzle_count, pc>>
    /\ UNCHANGED <<overflow_checks, fnVars, config, headers, records, puzzle_count,
                   page_count, skipped_count, current_puzzle_pages, files, archive, io_errors, last,
                   puzzle_groups, rom_file>>

\* the iterations of the file loop over the archive's group, taken
\* together: every file holds the same text, which is packed into as many
\* rows as the group has files, or is longer than a row
RomPackArchive ==
    /\ pc = "rom_files" /\ group.archived > 0
    /\ LET trimmed == trim_end(ArchiveRecord)
       IN  IF record_too_large(trimmed)
               THEN /\ pc' = "failed"
                    /\ UNCHANGED <<group, rom_data, actual_puzzle_count, actual_file_count>>
           ELSE /\ rom_data' = extend_from_slice(rom_data, row_bytes(trimmed), group.archived)
                /\ actual_file_count' = actual_file_count + group.archived
                /\ group' = named_group(<<>>)
                /\ actual_puzzle_count' = actual_puzzle_count + 1
                /\ pc' = "rom_groups"
    /\ UNCHANGED <<overflow_checks, fnVars, config, headers, records, puzzle_count,
                   page_count, skipped_count, current_puzzle_pages, files, archive, io_errors, last,
                   puzzle_groups, rom_file>>

\* no group is left, or the next one does not fit: the buffer is padded to
\* the data region, the config sector is appended and the image is written
RomWriteImage ==
    /\ pc = "rom_groups"
    /\ IF puzzle_groups = <<>> THEN TRUE
       ELSE ~group_fits(vec_len(rom_data), group_len(Head(puzzle_groups)))
    /\ rom_file' = Some(resize(rom_data, MAX_ROM_DATA_SIZE) \o config_sector(page_count))
    /\ rom_data' = <<>>
    /\ puzzle_groups' = <<>>
    /\ pc' = "done"
    /\ UNCHANGED <<overflow_checks, fnVars, config, headers, records, puzzle_count,
                   page_count, skipped_count, current_puzzle_pages, files, archive, io_errors, last,
                   group, actual_puzzle_count, actual_file_count>>

Next ==
    \/ ReadRecords
    \/ ProcessRecord
    \/ RepeatRecord
    \/ FinishLoop
    \/ RomBeginGroup
    \/ RomPackFile
    \/ RomPackArchive
    \/ RomWriteImage

-----------------------------------------------------------------------------
(* Inputs of the library functions                                          *)

\* number of independently chosen ranks of an input board; the 8 ranks of
\* a board repeat the chosen ones in order
NumRankSlots == 3

\* how far past the last square (63) a move's from / to index may point
MaxOffBoard == 1

Files == Str("abcdefgh")

Ranks == Str("12345678")

ExpandedRanks ==
    {Str("11111111"), Str("rnbqkbnr"), Str("111P1111"), Str("PPP1PPPP"),
     Str("1111111p"), Str("Q11k11K1")}

\* the last two are not well formed: adjacent digits, and 7 squares only
CompactRanks ==
    {Str("8"), Str("rnbqkbnr"), Str("3P4"), Str("PPP1PPPP"),
     Str("7p"), Str("Q2k2K1"), Str("44"), Str("p6")}

SlotOf(i) == ((i - 1) % NumRankSlots) + 1

ExpandedBoards ==
    {concat([i \in 1..8 |-> choice[SlotOf(i)]]) : choice \in [1..NumRankSlots -> ExpandedRanks]}

CompactBoards ==
    {join([i \in 1..8 |-> choice[SlotOf(i)]], "/") : choice \in [1..NumRankSlots -> CompactRanks]}

\* boards of the unit tests of lib.rs, a middle-game board, and a board
\* that is too short
ApplyBoards ==
    {Str("rnbqkbnr/pppppppp/8/8/3P4/8/PPP1PPPP/RNBQKBNR"),
     Str("8/P7/8/8/8/8/7p/8"),
     Str("r3k2r/1P4p1/8/8/8/8/1p4P1/R3K2R"),
     Str("8/8")}

Promotions == {None, "q", "Q"}

ApplyMoves ==
    {ChessMove(f, t, p) : f \in 0..(63 + MaxOffBoard), t \in 0..(63 + MaxOffBoard),
                          p \in Promotions}

WellShapedMoves ==
    {<<f1, r1, f2, r2>> \o p : f1 \in Range(Files), r1 \in Range(Ranks),
                               f2 \in Range(Files), r2 \in Range(Ranks),
                               p \in {<<>>, <<"q">>}}

OddChars == Range(Str("iAz09x-"))

MalformedMoves ==
    {<<>>, Str("e2"), Str("e2e")}
    \cup {[base EXCEPT ![k] = c] : base \in {Str("e2e4"), Str("a7a8q")},
                                   k \in 1..4, c \in OddChars}

FnInputs ==
    [kind : {"fen"}, fen : CompactBoards]
    \cup [kind : {"board64"}, board : ExpandedBoards]
    \cup [kind : {"move"}, move_str : WellShapedMoves \cup MalformedMoves, reversed : BOOLEAN]
    \cup [kind : {"apply"}, fen : ApplyBoards, move : ApplyMoves]

-----------------------------------------------------------------------------
(* Calls of the library functions                                           *)

\* only parse_move and move_to_index do u8 arithmetic, so the build profile
\* varies for their inputs only
InitFn ==
    /\ fn = "none"
    /\ fn_in \in FnInputs
    /\ overflow_checks \in (IF fn_in.kind = "move" THEN BOOLEAN ELSE {TRUE})
    /\ fn_out = None
    /\ MainIdle
    /\ RomIdle

CallExpandFen ==
    /\ fn = "none" /\ fn_in.kind = "fen"
    /\ fn' = "expand_fen"
    /\ fn_out' = expand_fen(fn_in.fen)
    /\ UNCHANGED <<overflow_checks, fn_in, mainVars, romVars>>

CallCompressBack ==
    /\ fn = "expand_fen"
    /\ fn' = "compress_fen(expand_fen)"
    /\ fn_out' = compress_fen(fn_out)
    /\ UNCHANGED <<overflow_checks, fn_in, mainVars, romVars>>

CallCompressFen ==
    /\ fn = "none" /\ fn_in.kind = "board64"
    /\ fn' = "compress_fen"
    /\ fn_out' = compress_fen(fn_in.board)
    /\ UNCHANGED <<overflow_checks, fn_in, mainVars, romVars>>

CallExpandBack ==
    /\ fn = "compress_fen"
    /\ fn' = "expand_fen(compress_fen)"
    /\ fn_out' = expand_fen(fn_out)
    /\ UNCHANGED <<overflow_checks, fn_in, mainVars, romVars>>

CallReverseFen ==
    /\ fn = "none" /\ fn_in.kind = "fen"
    /\ fn' = "reverse_fen"
    /\ fn_out' = reverse_fen(fn_in.fen)
    /\ UNCHANGED <<overflow_checks, fn_in, mainVars, romVars>>

CallReverseAgain ==
    /\ fn = "reverse_fen"
    /\ fn' = "reverse_fen(reverse_fen)"
    /\ fn_out' = reverse_fen(fn_out)
    /\ UNCHANGED <<overflow_checks, fn_in, mainVars, romVars>>

CallParseMove ==
    /\ fn = "none" /\ fn_in.kind = "move"
    /\ fn' = "parse_move"
    /\ fn_out' = parse_move(fn_in.move_str, overflow_checks)
    /\ UNCHANGED <<overflow_checks, fn_in, mainVars, romVars>>

CallMoveToIndex ==
    /\ fn = "none" /\ fn_in.kind = "move"
    /\ fn' = "move_to_index"
    /\ fn_out' = move_to_index(fn_in.move_str, fn_in.reversed, overflow_checks)
    /\ UNCHANGED <<overflow_checks, fn_in, mainVars, romVars>>

CallApplyMove ==
    /\ fn = "none" /\ fn_in.kind = "apply"
    /\ fn' = "apply_move"
    /\ fn_out' = apply_move(fn_in.fen, fn_in.move)
    /\ UNCHANGED <<overflow_checks, fn_in, mainVars, romVars>>

\* the inverse move (from and to swapped, no promotion) applied to the
\* board the first apply_move returned
CallApplyInverse ==
    /\ fn = "apply_move" /\ fn_out.tag = "Ok"
    /\ fn' = "apply_move(inverse)"
    /\ fn_out' = apply_move(fn_out.val.fen, ChessMove(fn_in.move.to, fn_in.move.from, None))
    /\ UNCHANGED <<overflow_checks, fn_in, mainVars, romVars>>

NextFn ==
    \/ CallExpandFen
    \/ CallCompressBack
    \/ CallCompressFen
    \/ CallExpandBack
    \/ CallReverseFen
    \/ CallReverseAgain
    \/ CallParseMove
    \/ CallMoveToIndex
    \/ CallApplyMove
    \/ CallApplyInverse

vars == <<overflow_checks, fnVars, mainVars, romVars>>

SpecFn == InitFn /\ [][NextFn]_vars

Spec == Init /\ [][Next]_vars

-----------------------------------------------------------------------------
(* Well-formedness of the inputs the claims quantify over                   *)

\* number of squares a compact rank describes
RECURSIVE RankWidth(_)
RankWidth(rank) ==
    IF rank = <<>> THEN 0
    ELSE (IF is_ascii_digit(Head(rank)) THEN to_digit(Head(rank)) ELSE 1) + RankWidth(Tail(rank))

WellFormedRank(rank) ==
    /\ \A i \in DOMAIN rank : rank[i] \in Range(Ranks) \/ is_ascii_alphabetic(rank[i])
    /\ \A i \in 1..(Len(rank) - 1) : ~(is_ascii_digit(rank[i]) /\ is_ascii_digit(rank[i + 1]))
    /\ RankWidth(rank) = 8

\* 8 ranks of 8 squares, every run of empty squares written as one digit
WellFormedCompact(fen) ==
    LET ranks == split(fen, "/")
    IN  Len(ranks) = 8 /\ \A i \in DOMAIN ranks : WellFormedRank(ranks[i])

\* 64 squares, each empty ('1') or a piece letter
WellFormedExpanded(board) ==
    Len(board) = 64 /\ \A i \in DOMAIN board : board[i] = "1" \/ is_ascii_alphabetic(board[i])

\* file a-h, rank 1-8, file a-h, rank 1-8, with or without a 5th character
WellShaped(move_str) ==
    /\ Len(move_str) \in {4, 5}
    /\ move_str[1] \in Range(Files) /\ move_str[2] \in Range(Ranks)
    /\ move_str[3] \in Range(Files) /\ move_str[4] \in Range(Ranks)

\* fewer than 4 characters, a file outside a-h, or a rank that is not 1-8
Malformed(move_str) ==
    \/ Len(move_str) < 4
    \/ move_str[1] \notin Range(Files) \/ move_str[2] \notin Range(Ranks)
    \/ move_str[3] \notin Range(Files) \/ move_str[4] \notin Range(Ranks)

\* position of c in s, counted from 0
IndexIn(s, c) == (CHOOSE i \in DOMAIN s : s[i] = c) - 1

\* the flat index of a square: (8 - rank) * 8 + (file - 'a')
SquareIndex(file, rank) == (8 - (IndexIn(Ranks, rank) + 1)) * 8 + IndexIn(Files, file)

\* the number a two-digit decimal text denotes
TwoDigits(t) == IndexIn(Str("0123456789"), t[1]) * 10 + IndexIn(Str("0123456789"), t[2])

OnBoard(i) == i >= 0 /\ i <= 63

-----------------------------------------------------------------------------
(* Claims about the library functions, checked under SpecFn                 *)

\* C1: for a well-formed board and a move with from # to whose source
\* index is on the board, apply_move yields a board: it empties square from,
\* puts on square to the promotion letter cased like the source piece (the
\* source piece itself without a promotion), leaves every other square
\* alone and returns the piece that stood on from before the move.
C1_ApplyMoveEffect ==
    (/\ fn = "apply_move"
     /\ WellFormedCompact(fn_in.fen)
     /\ fn_in.move.from # fn_in.move.to
     /\ OnBoard(fn_in.move.from))
    => /\ fn_out.tag = "Ok"
       /\ LET old == expand_fen(fn_in.fen)
              new == expand_fen(fn_out.val.fen)
              src == old[fn_in.move.from + 1]
              p == fn_in.move.promotion
              upper == Str("ABCDEFGHIJKLMNOPQRSTUVWXYZ")
              lower == Str("abcdefghijklmnopqrstuvwxyz")
              letter == IF p \in Range(upper) THEN IndexIn(upper, p) + 1
                        ELSE IndexIn(lower, p) + 1
              placed == IF p = None THEN src
                        ELSE IF src \in Range(upper) THEN upper[letter] ELSE lower[letter]
          IN  /\ Len(new) = 64
              /\ new[fn_in.move.from + 1] = "1"
              /\ new[fn_in.move.to + 1] = placed
              /\ \A i \in 1..64 :
                     (i # fn_in.move.from + 1 /\ i # fn_in.move.to + 1) => new[i] = old[i]
              /\ fn_out.val.piece = src

\* C2: expand_fen undoes compress_fen on every 64-square expanded board,
\* and compress_fen undoes expand_fen on every well-formed compact board.
C2_RoundTrip ==
    /\ (fn = "expand_fen(compress_fen)" /\ WellFormedExpanded(fn_in.board))
       => fn_out = fn_in.board
    /\ (fn = "compress_fen(expand_fen)" /\ WellFormedCompact(fn_in.fen))
       => fn_out = fn_in.fen

C2_Witness ==
    /\ fn = "compress_fen(expand_fen)"
    /\ WellFormedCompact(fn_in.fen)
    /\ \E i \in 1..(Len(fn_in.fen) - 2) :
           is_ascii_digit(fn_in.fen[i]) /\ fn_in.fen[i + 1] = "/" /\ is_ascii_digit(fn_in.fen[i + 2])
    /\ fn_out = fn_in.fen

\* C3: for a well-shaped move text move_to_index returns "FF,TT", the
\* two-digit decimals of the squares' flat indices (8 - rank) * 8 + file,
\* which are the from / to of parse_move; with reversed set every index i
\* is 63 - i instead.
C3_MoveToIndex ==
    (fn = "move_to_index" /\ WellShaped(fn_in.move_str))
    => LET m == fn_in.move_str
           from == SquareIndex(m[1], m[2])
           to == SquareIndex(m[3], m[4])
           parsed == parse_move(m, overflow_checks)
           seen(i) == IF fn_in.reversed THEN 63 - i ELSE i
       IN  /\ fn_out.tag = "Ok"
           /\ Len(fn_out.val) = 5 /\ fn_out.val[3] = ","
           /\ \A k \in {1, 2, 4, 5} : is_ascii_digit(fn_out.val[k])
           /\ parsed.tag = "Ok" /\ parsed.val.from = from /\ parsed.val.to = to
           /\ TwoDigits(SubSeq(fn_out.val, 1, 2)) = seen(from)
           /\ TwoDigits(SubSeq(fn_out.val, 4, 5)) = seen(to)

C3_Witness ==
    /\ fn = "move_to_index"
    /\ fn_in.move_str = Str("e2e4") /\ fn_in.reversed
    /\ fn_out = Ok(Str("11,27"))

\* C4: reverse_fen applied twice to a well-formed compact board gives the
\* board back.
C4_MirrorInvolution ==
    (fn = "reverse_fen(reverse_fen)" /\ WellFormedCompact(fn_in.fen))
    => fn_out = fn_in.fen

C4_Witness ==
    /\ fn = "reverse_fen(reverse_fen)"
    /\ WellFormedCompact(fn_in.fen)
    /\ reverse_fen(fn_in.fen) # fn_in.fen
    /\ fn_out = fn_in.fen

\* C5 as stated: for a well-formed board and a promotion-free move,
\* applying the move and then the inverse move gives the board back.
C5_ApplyInverseRestores ==
    (/\ fn = "apply_move(inverse)"
     /\ WellFormedCompact(fn_in.fen)
     /\ fn_in.move.promotion = None
     /\ OnBoard(fn_in.move.from) /\ OnBoard(fn_in.move.to))
    => fn_out.tag = "Ok" /\ fn_out.val.fen = fn_in.fen

\* C5 amended: for a well-formed board and a promotion-free move whose
\* destination square is empty before the move (or is the source square),
\* applying the move and then the inverse move gives the board back.
C5_ApplyInverseRestoresEmptyTarget ==
    (/\ fn = "apply_move(inverse)"
     /\ WellFormedCompact(fn_in.fen)
     /\ fn_in.move.promotion = None
     /\ OnBoard(fn_in.move.from) /\ OnBoard(fn_in.move.to)
     /\ \/ fn_in.move.from = fn_in.move.to
        \/ expand_fen(fn_in.fen)[fn_in.move.to + 1] = "1")
    => fn_out.tag = "Ok" /\ fn_out.val.fen = fn_in.fen

C5_Witness ==
    /\ fn = "apply_move(inverse)"
    /\ WellFormedCompact(fn_in.fen)
    /\ fn_in.move.promotion = None
    /\ OnBoard(fn_in.move.from) /\ OnBoard(fn_in.move.to)
    /\ fn_in.move.from # fn_in.move.to
    /\ expand_fen(fn_in.fen)[fn_in.move.from + 1] # "1"
    /\ expand_fen(fn_in.fen)[fn_in.move.to + 1] = "1"
    /\ fn_out.tag = "Ok" /\ fn_out.val.fen = fn_in.fen

\* C10: parse_move returns an error for every malformed move text (fewer
\* than 4 characters, a file outside a-h, a rank that is not a digit 1-8);
\* it never panics and never returns a square index above 63.
C10_ParseMoveRejectsMalformed ==
    (fn = "parse_move" /\ Malformed(fn_in.move_str)) => fn_out.tag = "Err"

-----------------------------------------------------------------------------
(* Claims about the program, checked under Spec                             *)

\* the names of the move records of puzzle, one per move
RecordsOf(puzzle, cfg) == {outfile(puzzle, cfg, k) : k \in 1..Len(puzzle.moves)}

\* the board before the last of moves, all of them well-shaped
RECURSIVE BoardBeforeLast(_, _)
BoardBeforeLast(fen, moves) ==
    IF Len(moves) <= 1 THEN fen
    ELSE BoardBeforeLast(apply_move(fen, parse_move(Head(moves), TRUE).val).val.fen, Tail(moves))

\* the piece on the source square of the final move of puzzle
FinalMovePiece(puzzle) ==
    LET final == puzzle.moves[Len(puzzle.moves)]
    IN  expand_fen(BoardBeforeLast(puzzle.fen, puzzle.moves))[SquareIndex(final[1], final[2]) + 1]

\* process_puzzle wrote the records of the last row and came to the
\* trailing-piece rule, and the lowercase of the piece of the final move is
\* not one of the configured last-move pieces; the call has returned, with
\* Ok or with the error of a removal
TrailingRuleRejected ==
    /\ last.step = "processed" /\ last.rejected
    /\ to_ascii_lowercase(FinalMovePiece(last.puzzle)) \notin Range(config.last_move_pieces)

\* C6: whenever the trailing-piece rule rejects a puzzle, none of that
\* puzzle's move records is in the fenpuzzles directory after process_puzzle
\* has returned.
C6_RejectedLeavesNoRecords ==
    TrailingRuleRejected => RecordsOf(last.puzzle, config) \cap DOMAIN files = {}

\* the .txt files of dir that belong to a group
GroupedFiles(dir) == {n \in txt_files(dir) : rfind(n, "-") >= 0}

\* C7: the buffer of the data region never holds more than
\* FLASH_SIZE - 4096 bytes, the packed rows take at most that many bytes,
\* and an image that is written is exactly FLASH_SIZE bytes long.
C7_RomCapacity ==
    /\ vec_len(rom_data) <= 16777216 - 4096
    /\ actual_file_count * 96 <= 16777216 - 4096
    /\ pc \in {"rom_groups", "rom_files"} => vec_len(rom_data) = actual_file_count * 96
    /\ rom_file # Absent => vec_len(rom_file[1]) = 16777216

\* an image of 16,777,216 bytes was written although a group of records
\* did not fit after the rows that were packed
C7_Witness ==
    /\ pc = "done" /\ rom_file # Absent
    /\ vec_len(rom_file[1]) = 16777216
    /\ actual_file_count >= 1
    /\ Cardinality(GroupedFiles(files)) + archive > actual_file_count

\* the bytes of the runs v after its first n bytes, as runs
RECURSIVE SkipBytes(_, _)
SkipBytes(v, n) ==
    IF n = 0 \/ v = <<>> THEN v
    ELSE LET r == Head(v)
             size == Len(r.bytes) * r.times
             whole == n \div Len(r.bytes)
             part == n % Len(r.bytes)
         IN  IF size <= n THEN SkipBytes(Tail(v), n - size)
             ELSE IF part = 0
                 THEN <<[r EXCEPT !.times = @ - whole]>> \o Tail(v)
             ELSE <<[bytes |-> SubSeq(r.bytes, part + 1, Len(r.bytes)), times |-> 1]>>
                  \o (IF r.times - whole - 1 > 0
                          THEN <<[r EXCEPT !.times = @ - whole - 1]>> ELSE <<>>)
                  \o Tail(v)

\* the bytes of the runs v, one by one
RECURSIVE Flatten(_)
Flatten(v) ==
    IF v = <<>> THEN <<>>
    ELSE [i \in 1..(Len(Head(v).bytes) * Head(v).times) |->
             Head(v).bytes[((i - 1) % Len(Head(v).bytes)) + 1]]
         \o Flatten(Tail(v))

\* the 4096 bytes from offset FLASH_SIZE - 4096 of the image
HeaderOf(image) == Flatten(SkipBytes(image, FLASH_SIZE - 4096))

\* the number 4 bytes denote, least significant byte first
le32(b) == b[1] + 256 * b[2] + 65536 * b[3] + 16777216 * b[4]

\* C8: the header of a written image is, byte for byte: the magic
\* 0x11131719 little-endian, the page count little-endian, the byte count
\* page count x 96 little-endian, type count 1, font size 1, two zero bytes,
\* type slot 0 holding 4 (chess puzzle), three zero type slots, size slot 0
\* holding 96 little-endian, 12 zero bytes, and zeros up to 4096 bytes.
C8_HeaderByteExact ==
    rom_file # Absent =>
        LET header == HeaderOf(rom_file[1])
        IN  /\ Len(header) = 4096
            /\ SubSeq(header, 1, 4) = <<25, 23, 19, 17>>
            /\ le32(SubSeq(header, 1, 4)) = 286463769
            /\ header[8] < 128 /\ le32(SubSeq(header, 5, 8)) = page_count
            /\ header[12] < 128 /\ le32(SubSeq(header, 9, 12)) = page_count * 96
            /\ header[13] = 1 /\ header[14] = 1
            /\ header[15] = 0 /\ header[16] = 0
            /\ header[17] = 4
            /\ header[18] = 0 /\ header[19] = 0 /\ header[20] = 0
            /\ SubSeq(header, 21, 24) = <<96, 0, 0, 0>>
            /\ \A k \in 25..4096 : header[k] = 0

\* an image whose byte count needs more than one byte
C8_Witness ==
    /\ rom_file # Absent
    /\ page_count >= 3
    /\ SubSeq(HeaderOf(rom_file[1]), 5, 12) = <<page_count, 0, 0, 0, (page_count * 96) % 256,
                                                (page_count * 96) \div 256, 0, 0>>

\* the six checks of the filter as the claim states them, on the row as it
\* was read: the excluded letters are looked for in the whole FEN field
\* without regard to case, the theme tag is looked for in the theme list
SixChecksPass(record, puzzle, cfg) ==
    /\ puzzle.moves # <<>>
    /\ Len(puzzle.moves) >= cfg.min_moves /\ Len(puzzle.moves) <= cfg.max_moves
    /\ puzzle.rating >= cfg.min_rating /\ puzzle.rating <= cfg.max_rating
    /\ \A i \in DOMAIN record[2] :
           is_ascii_alphabetic(record[2][i])
           => to_ascii_lowercase(record[2][i]) \notin Range(to_lowercase(cfg.exclude_pieces))
    /\ cfg.theme_tag # Absent => cfg.theme_tag[1] \in Range(puzzle.themes)
    /\ cfg.from_puzzle_id # Absent => ~str_lt(puzzle.id, cfg.from_puzzle_id[1])
    /\ cfg.to_puzzle_id # Absent => ~str_lt(cfg.to_puzzle_id[1], puzzle.id)

\* C9: the filter accepts a puzzle if and only if all six checks pass:
\* moves not empty, move count in [min_moves, max_moves], rating in
\* [min_rating, max_rating], no letter of the full FEN is an excluded piece
\* (case-insensitive), the theme tag (if any) is in the theme list, the id
\* is in the [from, to] range.
C9_FilterIffSixChecks ==
    last.step \in {"skipped", "processed"}
    => ((last.step = "processed") <=> SixChecksPass(last.record, last.puzzle, config))


\* the groups of the record files of the directory, in the order of their
\* sorted names
GroupsOf(dir) == listed_groups(dir, archive)

\* the files listed by name of the longest prefix of groups whose rows fit
\* in the data region after `used` bytes
RECURSIVE FittingPrefix(_, _)
FittingPrefix(groups, used) ==
    IF groups = <<>> THEN <<>>
    ELSE IF used + group_len(Head(groups)) * ROW_SIZE > FLASH_SIZE - CONFIG_SECTOR_SIZE
        THEN <<>>
    ELSE Head(groups).names
         \o FittingPrefix(Tail(groups), used + group_len(Head(groups)) * ROW_SIZE)

\* generate_rom has run to its end, with an image or with an error
RomEnded == config.generate_rom /\ pc \in {"done", "failed"}

\* C11: if the text of any single persisted move record exceeds 96 bytes,
\* generate_rom fails with an error and no ROM image is written.
C11_OversizedRecordFailsRom ==
    (RomEnded /\ \E n \in GroupedFiles(files) : Len(trim_end(files[n])) > 96)
    => pc = "failed" /\ rom_file = Absent

\* C11 amended: if the trimmed text of a record of one of the groups that
\* generate_rom packs (the longest prefix of the sorted groups that fits in
\* the data region) exceeds 96 bytes, generate_rom fails with an error and
\* no ROM image is written.
C11_OversizedPackedRecordFailsRom ==
    (RomEnded /\ \E n \in Range(FittingPrefix(GroupsOf(files), 0)) :
                     Len(trim_end(files[n])) > 96)
    => pc = "failed" /\ rom_file = Absent

\* a record of this run was packed before the oversized one ended generate_rom
C11_Witness ==
    /\ RomEnded
    /\ \E n \in Range(FittingPrefix(GroupsOf(files), 0)) : Len(trim_end(files[n])) > 96
    /\ actual_file_count >= 1
    /\ pc = "failed" /\ rom_file = Absent


\* C12: whenever process_puzzle has returned for a puzzle with N moves, with
\* success or with any error (a failed record write or a failed record
\* removal included), the number of the puzzle's move records on the sink
\* is N or 0.
C12_AllOrNothing ==
    last.step = "processed"
    => Cardinality(RecordsOf(last.puzzle, config) \cap DOMAIN files)
           \in {0, Len(last.puzzle.moves)}


\* some move of the last row failed to parse or to apply in the validation pass
SomeMoveFailed ==
    /\ last.step = "processed"
    /\ validate_moves(last.puzzle.fen, last.puzzle.moves, 0, overflow_checks).tag # "Ok"

\* C13: if any move of a puzzle fails to parse or to apply, process_puzzle
\* reports a failure (it returns an error) and no move record of the puzzle
\* is written.
C13_FailedMoveReportedNoRecord ==
    SomeMoveFailed
    => /\ last.result.tag = "Err"
       /\ RecordsOf(last.puzzle, config) \cap DOMAIN files = {}


\* process_puzzle returned Ok for the last row and kept its records
Accepted == last.step = "processed" /\ last.result.tag = "Ok" /\ ~last.rejected

\* the board after the first k of moves, each applied to the board the one
\* before it produced
RECURSIVE BoardAfter(_, _, _)
BoardAfter(fen, moves, k) ==
    IF k = 0 THEN fen
    ELSE apply_move(BoardAfter(fen, moves, k - 1), parse_move(moves[k], TRUE).val).val.fen

\* the board field of a record of puzzle that shows the compact board fen
BoardField(puzzle, fen) ==
    expand_fen(IF puzzle.first_move = "w" THEN reverse_fen(fen) ELSE fen)

\* the comma-separated fields of record k of puzzle on the sink
RecordFields(puzzle, k) == split(files[outfile(puzzle, config, k)], ",")

\* the files of the sink whose name starts with puzzle-<id>-
PuzzleFiles(puzzle) ==
    LET prefix == Str("puzzle-") \o puzzle.id \o <<"-">>
    IN  {n \in DOMAIN files : Len(n) >= Len(prefix) /\ SubSeq(n, 1, Len(prefix)) = prefix}

\* C14: for an accepted puzzle with N moves exactly N move records are
\* emitted, record k carries move number k and total N, and its board is
\* the result of applying moves 1..k in order to the starting board.
C14_RecordsFollowMoves ==
    Accepted =>
        LET puzzle == last.puzzle
            N == Len(puzzle.moves)
        IN  /\ last.result.val = N
            /\ PuzzleFiles(puzzle) = RecordsOf(puzzle, config)
            /\ Cardinality(PuzzleFiles(puzzle)) = N
            /\ \A k \in 1..N :
                   LET fields == RecordFields(puzzle, k)
                   IN  /\ Len(fields) = 6
                       /\ fields[1] = puzzle.id
                       /\ fields[2] = BoardField(puzzle, BoardAfter(puzzle.fen, puzzle.moves, k))
                       /\ fields[5] = to_string(k)
                       /\ fields[6] = to_string(N)

\* a mirrored puzzle whose second record shows both moves, which is not the
\* board of the second move alone
C14_Witness ==
    /\ Accepted
    /\ Len(last.puzzle.moves) = 2
    /\ last.puzzle.first_move = "w"
    /\ RecordFields(last.puzzle, 2)[2]
           = BoardField(last.puzzle, BoardAfter(last.puzzle.fen, last.puzzle.moves, 2))
    /\ RecordFields(last.puzzle, 2)[2]
           # BoardField(last.puzzle,
                        apply_move(last.puzzle.fen,
                                   parse_move(last.puzzle.moves[2], TRUE).val).val.fen)
    /\ RecordFields(last.puzzle, 2)[5] = <<"2">> /\ RecordFields(last.puzzle, 2)[6] = <<"2">>


\* the key of a record file: its name up to the last hyphen
KeyOf(name) == SubSeq(name, 1, rfind(name, "-"))

\* the record files listed by name with the given key, in sorted order
MembersOf(key) == sorted({n \in GroupedFiles(files) : KeyOf(n) = key})

\* the number of record files of the sink with the given key
SizeOf(key) == Len(MembersOf(key)) + (IF key = ArchiveBase THEN archive ELSE 0)

\* the keys of the record files of the sink, in sorted order
SortedKeys ==
    sorted({KeyOf(n) : n \in GroupedFiles(files)}
           \cup (IF archive > 0 THEN {ArchiveBase} ELSE {}))

\* the longest prefix of keys whose groups fit after `used` bytes
RECURSIVE WholeGroups(_, _)
WholeGroups(keys, used) ==
    IF keys = <<>> THEN <<>>
    ELSE IF used + SizeOf(Head(keys)) * 96 > FLASH_SIZE - 4096 THEN <<>>
    ELSE <<Head(keys)>> \o WholeGroups(Tail(keys), used + SizeOf(Head(keys)) * 96)

\* the number of records of the groups of keys
RECURSIVE RecordsIn(_)
RecordsIn(keys) == IF keys = <<>> THEN 0 ELSE SizeOf(Head(keys)) + RecordsIn(Tail(keys))

\* the 96 bytes of the row of text: the text, then zeros
RowOf(text) == [i \in 1..96 |-> IF i <= Len(text) THEN Code[text[i]] ELSE 0]

\* the rows of the groups of keys, one after the other, as runs of bytes:
\* the rows of the archive are one row repeated, every other row is a run
\* of its own
RECURSIVE RowsOf(_)
RowsOf(keys) ==
    IF keys = <<>> THEN <<>>
    ELSE LET members == MembersOf(Head(keys))
         IN  (IF Head(keys) = ArchiveBase /\ archive > 0
                  THEN <<[bytes |-> RowOf(trim_end(ArchiveRecord)), times |-> archive]>>
                  ELSE <<>>)
             \o [i \in 1..Len(members) |->
                    [bytes |-> RowOf(trim_end(files[members[i]])), times |-> 1]]
             \o RowsOf(Tail(keys))

\* n zero bytes as runs of bytes
ZeroFill(n) == IF n = 0 THEN <<>> ELSE <<[bytes |-> <<0>>, times |-> n]>>

\* the data region of a written image: its first FLASH_SIZE - 4096 bytes
DataRegion == vec_truncate(rom_file[1], FLASH_SIZE - 4096)

\* C15: the data region of a written image is exactly the records of the
\* longest prefix of the groups, in sorted key order, whose rows fit in
\* FLASH_SIZE - 4096 bytes, each record in a 96-byte row right-padded with
\* zeros, then zeros to the end of the region: nothing of the first group
\* that does not fit or of any later group is packed.
C15_WholeGroupsOnly ==
    (pc = "done" /\ rom_file # Absent) =>
        LET packed == WholeGroups(SortedKeys, 0)
        IN  /\ RecordsIn(packed) * 96 <= FLASH_SIZE - 4096
            /\ DataRegion = RowsOf(packed) \o ZeroFill(FLASH_SIZE - 4096 - RecordsIn(packed) * 96)
            /\ RecordsIn(packed) = actual_file_count

\* an image with a packed group, a group that did not fit, and a later
\* group of one record that is left out although a row is free
C15_Witness ==
    /\ pc = "done" /\ rom_file # Absent
    /\ LET packed == WholeGroups(SortedKeys, 0)
       IN  /\ packed # <<>>
           /\ RecordsIn(packed) < (FLASH_SIZE - 4096) \div 96
           /\ \E key \in Range(SortedKeys) :
                  /\ SizeOf(key) = 1
                  /\ \A i \in DOMAIN packed : str_lt(packed[i], key)
                  /\ \E mid \in Range(SortedKeys) :
                         /\ str_lt(mid, key)
                         /\ mid \notin Range(packed)
           /\ DataRegion = RowsOf(packed) \o ZeroFill(FLASH_SIZE - 4096 - RecordsIn(packed) * 96)


\* text starts with prefix
StartsWith(text, prefix) ==
    Len(text) >= Len(prefix) /\ SubSeq(text, 1, Len(prefix)) = prefix

\* the number, in the order of the claim, of the first check of the filter
\* that puzzle fails, 0 when it fails none
FirstFailingCheck(puzzle, cfg) ==
    IF puzzle.moves = <<>> THEN 1
    ELSE IF Len(puzzle.moves) > cfg.max_moves \/ Len(puzzle.moves) < cfg.min_moves THEN 2
    ELSE IF puzzle.rating > cfg.max_rating \/ puzzle.rating < cfg.min_rating THEN 3
    ELSE IF Range(cfg.exclude_pieces) \cap piece_chars(puzzle) # {} THEN 4
    ELSE IF /\ cfg.theme_tag # Absent
            /\ \A i \in DOMAIN puzzle.themes : ~str_contains(puzzle.themes[i], cfg.theme_tag[1])
        THEN 5
    ELSE IF \/ cfg.from_puzzle_id # Absent /\ str_lt(puzzle.id, cfg.from_puzzle_id[1])
            \/ cfg.to_puzzle_id # Absent /\ str_lt(cfg.to_puzzle_id[1], puzzle.id)
        THEN 6
    ELSE 0

\* the number of the check a printed skip reason names, 0 for no check
CheckNamed(text) ==
    IF text = Str("no moves") THEN 1
    ELSE IF StartsWith(text, Str("move count ")) THEN 2
    ELSE IF StartsWith(text, Str("rating ")) THEN 3
    ELSE IF StartsWith(text, Str("contains excluded piece ")) THEN 4
    ELSE IF StartsWith(text, Str("missing required theme ")) THEN 5
    ELSE IF StartsWith(text, Str("ID ")) THEN 6
    ELSE 0

\* C16: for every puzzle the filter rejects, the skip reason printed in
\* verbose mode names the first failing check in the order (1) empty move
\* list, (2) move count, (3) rating, (4) excluded piece, (5) required theme
\* absent, (6) id outside the range.
C16_SkipReasonNamesFirstFailingCheck ==
    (last.step = "skipped" /\ last.printed # Absent)
    => CheckNamed(last.printed[1]) = FirstFailingCheck(last.puzzle, config)


\* the number of rows of the CSV file the loop has not read
RECURSIVE RowsLeft(_)
RowsLeft(runs) == IF runs = <<>> THEN 0 ELSE Head(runs).times + RowsLeft(Tail(runs))

\* C17: the page count that is written to the header is the number of move
\* records of the accepted puzzles: every row adds its number of moves when
\* its puzzle is accepted and its records stay on the sink, and nothing
\* when it failed validation or was rolled back by the trailing-piece rule.
C17_PageCountCountsAccepted ==
    [][records' # records
       => page_count' = page_count
                        + (RowsLeft(records) - RowsLeft(records'))
                          * (IF Accepted' THEN Len(last'.puzzle.moves) ELSE 0)]_vars


\* the piece record k of puzzle places on the target square: the promotion
\* letter in the case of the piece that moves, or the piece that moves
PlacedPiece(puzzle, k) ==
    LET move_str == puzzle.moves[k]
        mover == expand_fen(BoardAfter(puzzle.fen, puzzle.moves, k - 1))
                     [SquareIndex(move_str[1], move_str[2]) + 1]
    IN  IF Len(move_str) = 4 THEN mover
        ELSE IF is_uppercase(mover) THEN to_ascii_uppercase(move_str[5])
        ELSE to_ascii_lowercase(move_str[5])

\* C18: for the board c of every emitted record expand_fen(reverse_fen(c))
\* is expand_fen(c) read backwards, and in every emitted record with
\* from # to the board field has '1' at position fromIdx and the piece just
\* placed at position toIdx, mirrored or not.
C18_BoardAndIndexAgree ==
    Accepted =>
        \A k \in 1..Len(last.puzzle.moves) :
            LET board == BoardAfter(last.puzzle.fen, last.puzzle.moves, k)
                fields == RecordFields(last.puzzle, k)
                fromIdx == TwoDigits(fields[3])
                toIdx == TwoDigits(fields[4])
            IN  /\ expand_fen(reverse_fen(board)) = Rev(expand_fen(board))
                /\ Len(fields[2]) = 64
                /\ Len(fields[3]) = 2 /\ Len(fields[4]) = 2
                /\ fromIdx # toIdx
                       => /\ fields[2][fromIdx + 1] = "1"
                          /\ fields[2][toIdx + 1] = PlacedPiece(last.puzzle, k)

\* a mirrored record with a promotion: the white pawn of a7 leaves "1" at
\* index 63 - 8 and the new queen stands at index 63 - 0
C18_Witness ==
    /\ Accepted
    /\ last.puzzle.first_move = "w"
    /\ Len(last.puzzle.moves[1]) = 5
    /\ TwoDigits(RecordFields(last.puzzle, 1)[3]) = 55
    /\ TwoDigits(RecordFields(last.puzzle, 1)[4]) = 63
    /\ RecordFields(last.puzzle, 1)[2][56] = "1"
    /\ RecordFields(last.puzzle, 1)[2][64] = "Q"


\* C19: throughout the loop over the rows the accumulated page count, the
\* value written as the header's page count, never exceeds MAX_ROM_PAGES.
C19_PageCountWithinCapacity == page_count <= (FLASH_SIZE - 4096) \div 96

====
